---- MODULE Spec2Model ----
(***************************************************************************)
(* UnsafeImage (vulkano/src/image/sys.rs): validation and creation of a    *)
(* Vulkan image, import of a raw image, memory binding, linear layout      *)
(* queries and destruction.  One behaviour is one caller: a device, a      *)
(* driver behind it, one descriptor; the caller either creates an image    *)
(* from the descriptor or imports a swapchain image, uses it and drops it. *)
(***************************************************************************)
EXTENDS Integers, Sequences, FiniteSets, TLC

\* ------------------------------------------------------------------ bounds
\* Largest width, height and depth a caller requests.
MaxExtent == 3
\* Largest explicit mipmap count a caller requests.
MaxMipmaps == 3
\* Largest small sample count a caller requests (128 is requested as well).
MaxSamples == 4
\* Largest array-layer count a caller requests.
MaxLayers == 7
\* Largest memory block a caller binds; offsets go one byte past it.
MaxMemory == 4
\* Largest mip level a caller asks the layout of.
MaxMipLevel == 1

\* ------------------------------------------------------- integer helpers
RECURSIVE BitAnd(_, _)
BitAnd(a, b) ==
    IF a = 0 \/ b = 0 THEN 0
    ELSE (IF a % 2 = 1 /\ b % 2 = 1 THEN 1 ELSE 0) + 2 * BitAnd(a \div 2, b \div 2)

RECURSIVE BitOr(_, _)
BitOr(a, b) ==
    IF a = 0 THEN b
    ELSE IF b = 0 THEN a
    ELSE (IF a % 2 = 1 \/ b % 2 = 1 THEN 1 ELSE 0) + 2 * BitOr(a \div 2, b \div 2)

\* 32 - n.leading_zeros() of a u32
RECURSIVE BitLen(_)
BitLen(n) == IF n = 0 THEN 0 ELSE 1 + BitLen(n \div 2)

is_power_of_two(n) == n > 0 /\ BitAnd(n, n - 1) = 0

\* ------------------------------------------------------------ vocabulary
UsageBits ==
    {"transfer_source", "transfer_destination", "sampled", "storage",
     "color_attachment", "depth_stencil_attachment", "transient_attachment",
     "input_attachment"}

CreateFlags ==
    {"sparse_binding", "sparse_residency", "sparse_aliased", "mutable_format",
     "cube_compatible", "array_2d_compatible"}

Extensions == {"khr_maintenance1", "khr_get_memory_requirements2", "khr_dedicated_allocation"}

Aspects == {"Color", "Depth", "Stencil", "Metadata", "Plane0", "Plane1", "Plane2"}

\* The formats of the device under test: numeric class and the features the
\* physical device reports for each tiling.
FormatTable ==
    [R8G8B8A8Unorm |->
        [ty |-> "Float",
         optimal |-> {"sampled_image", "storage_image", "color_attachment",
                      "transfer_src", "transfer_dst"},
         linear |-> {"sampled_image", "transfer_src", "transfer_dst"}],
     R8Uint |->
        [ty |-> "Uint",
         optimal |-> {"sampled_image", "storage_image", "color_attachment"},
         linear |-> {}],
     ASTC_5x4UnormBlock |->
        [ty |-> "Compressed",
         optimal |-> {"sampled_image", "transfer_src", "transfer_dst"},
         linear |-> {}],
     D16Unorm |->
        [ty |-> "Depth",
         optimal |-> {"sampled_image", "depth_stencil_attachment", "transfer_dst"},
         linear |-> {}],
     S8Uint |->
        [ty |-> "Stencil",
         optimal |-> {"depth_stencil_attachment", "transfer_src"},
         linear |-> {}],
     D24Unorm_S8Uint |->
        [ty |-> "DepthStencil",
         optimal |-> {"sampled_image", "depth_stencil_attachment"},
         linear |-> {}],
     G8B8R8_3PLANE420Unorm |->
        [ty |-> "Ycbcr",
         optimal |-> {"sampled_image", "transfer_src", "transfer_dst"},
         linear |-> {"sampled_image", "transfer_src", "transfer_dst"}],
     G8B8R8_2PLANE420Unorm |->
        [ty |-> "Ycbcr",
         optimal |-> {"sampled_image", "color_attachment", "transfer_dst"},
         linear |-> {"sampled_image"}],
     R64Sfloat |->
        [ty |-> "Float",
         optimal |-> {},
         linear |-> {}]]

Formats == DOMAIN FormatTable

\* device.physical_device().limits() of the device under test.
Limits ==
    [max_image_array_layers |-> 6,
     max_image_dimension_1d |-> 2,
     max_image_dimension_2d |-> 2,
     max_image_dimension_3d |-> 2,
     max_image_dimension_cube |-> 1,
     sampled_image_color_sample_counts |-> 7,
     sampled_image_integer_sample_counts |-> 1,
     sampled_image_depth_sample_counts |-> 3,
     sampled_image_stencil_sample_counts |-> 1,
     storage_image_sample_counts |-> 3,
     framebuffer_color_sample_counts |-> 3,
     framebuffer_depth_sample_counts |-> 3,
     framebuffer_stencil_sample_counts |-> 1]

\* ----------------------------------------------------------------- errors
NoDimensions == [kind |-> "None", width |-> 0, height |-> 0, depth |-> 0, array_layers |-> 0]

\* An ImageCreationError value (a Range<u32> is its two ends).
Error(tag, obtained, range, dims) ==
    [tag |-> tag, obtained |-> obtained, valid_range |-> range, dimensions |-> dims,
     source |-> "None"]

NoError == Error("None", 0, <<0, 0>>, NoDimensions)
FormatNotSupported == Error("FormatNotSupported", 0, <<0, 0>>, NoDimensions)
UnsupportedUsage == Error("UnsupportedUsage", 0, <<0, 0>>, NoDimensions)
CreationFlagRequirementsNotMet ==
    Error("CreationFlagRequirementsNotMet", 0, <<0, 0>>, NoDimensions)
ShaderStorageImageMultisampleFeatureNotEnabled ==
    Error("ShaderStorageImageMultisampleFeatureNotEnabled", 0, <<0, 0>>, NoDimensions)
InvalidMipmapsCount(obtained, lo, hi) ==
    Error("InvalidMipmapsCount", obtained, <<lo, hi>>, NoDimensions)
UnsupportedSamplesCount(obtained) ==
    Error("UnsupportedSamplesCount", obtained, <<0, 0>>, NoDimensions)
UnsupportedDimensions(dims) == Error("UnsupportedDimensions", 0, <<0, 0>>, dims)
\* ImageCreationError::AllocError(DeviceMemoryAllocError::OomError(oom))
AllocError(oom) == [Error("AllocError", 0, <<0, 0>>, NoDimensions) EXCEPT !.source = oom]

\* ------------------------------------------------- validation (new_impl)
\* usage.f for a field f of ImageUsage / flags.f of ImageCreateFlags
Has(set, bit) == bit \in set

\* flags the constructor does not implement
UnimplementedFlags(a) ==
    Has(a.flags, "sparse_binding") \/ Has(a.flags, "sparse_residency")
        \/ Has(a.flags, "sparse_aliased") \/ Has(a.flags, "mutable_format")

\* TilingFeatures reading the optimal features whatever the tiling
TilingFeatures_AlwaysOptimal(a) == FormatTable[a.format].optimal

\* the features of the format for the requested tiling
TilingFeatures(a) ==
    IF a.linear_tiling THEN FormatTable[a.format].linear ELSE FormatTable[a.format].optimal

\* FormatFeaturesCheck without the test of the color_attachment feature
FormatFeaturesCheck_NoColorAttachment(dev, a) ==
    LET features == TilingFeatures(a)
        usage == a.usage
    IN  IF features = {} THEN FormatNotSupported
        ELSE IF Has(usage, "sampled") /\ ~Has(features, "sampled_image") THEN UnsupportedUsage
        ELSE IF Has(usage, "storage") /\ ~Has(features, "storage_image") THEN UnsupportedUsage
        ELSE IF Has(usage, "depth_stencil_attachment")
                /\ ~Has(features, "depth_stencil_attachment")
            THEN UnsupportedUsage
        ELSE IF Has(usage, "input_attachment")
                /\ ~(Has(features, "color_attachment")
                     \/ Has(features, "depth_stencil_attachment"))
            THEN UnsupportedUsage
        ELSE IF Has(dev.loaded_extensions, "khr_maintenance1")
                /\ Has(usage, "transfer_source") /\ ~Has(features, "transfer_src")
            THEN UnsupportedUsage
        ELSE IF Has(dev.loaded_extensions, "khr_maintenance1")
                /\ Has(usage, "transfer_destination") /\ ~Has(features, "transfer_dst")
            THEN UnsupportedUsage
        ELSE NoError

\* FormatFeaturesCheck testing the transfer features whatever extension is loaded
FormatFeaturesCheck_UngatedTransfer(dev, a) ==
    LET features == TilingFeatures(a)
        usage == a.usage
    IN  IF features = {} THEN FormatNotSupported
        ELSE IF Has(usage, "sampled") /\ ~Has(features, "sampled_image") THEN UnsupportedUsage
        ELSE IF Has(usage, "storage") /\ ~Has(features, "storage_image") THEN UnsupportedUsage
        ELSE IF Has(usage, "color_attachment") /\ ~Has(features, "color_attachment")
            THEN UnsupportedUsage
        ELSE IF Has(usage, "depth_stencil_attachment")
                /\ ~Has(features, "depth_stencil_attachment")
            THEN UnsupportedUsage
        ELSE IF Has(usage, "input_attachment")
                /\ ~(Has(features, "color_attachment")
                     \/ Has(features, "depth_stencil_attachment"))
            THEN UnsupportedUsage
        ELSE IF Has(usage, "transfer_source") /\ ~Has(features, "transfer_src")
            THEN UnsupportedUsage
        ELSE IF Has(usage, "transfer_destination") /\ ~Has(features, "transfer_dst")
            THEN UnsupportedUsage
        ELSE NoError

\* first error of the format-feature block, NoError when it yields the features
FormatFeaturesCheck(dev, a) ==
    LET features == TilingFeatures(a)
        usage == a.usage
    IN  IF features = {} THEN FormatNotSupported
        ELSE IF Has(usage, "sampled") /\ ~Has(features, "sampled_image") THEN UnsupportedUsage
        ELSE IF Has(usage, "storage") /\ ~Has(features, "storage_image") THEN UnsupportedUsage
        ELSE IF Has(usage, "color_attachment") /\ ~Has(features, "color_attachment")
            THEN UnsupportedUsage
        ELSE IF Has(usage, "depth_stencil_attachment")
                /\ ~Has(features, "depth_stencil_attachment")
            THEN UnsupportedUsage
        ELSE IF Has(usage, "input_attachment")
                /\ ~(Has(features, "color_attachment")
                     \/ Has(features, "depth_stencil_attachment"))
            THEN UnsupportedUsage
        ELSE IF Has(dev.loaded_extensions, "khr_maintenance1")
                /\ Has(usage, "transfer_source") /\ ~Has(features, "transfer_src")
            THEN UnsupportedUsage
        ELSE IF Has(dev.loaded_extensions, "khr_maintenance1")
                /\ Has(usage, "transfer_destination") /\ ~Has(features, "transfer_dst")
            THEN UnsupportedUsage
        ELSE NoError

\* UsageNoneCheck accepting an empty usage
UsageNoneCheck_Never(a) == NoError

\* usage must not be 0
UsageNoneCheck(a) == IF a.usage = {} THEN UnsupportedUsage ELSE NoError

\* TransientCheck that lets sampled pass as well
TransientCheck_SampledAllowed(a) ==
    IF Has(a.usage, "transient_attachment")
          /\ a.usage \ {"transient_attachment", "color_attachment",
                        "depth_stencil_attachment", "input_attachment", "sampled"} # {}
    THEN UnsupportedUsage
    ELSE NoError

\* with transient_attachment only the three attachment usages may be set
TransientCheck(a) ==
    IF Has(a.usage, "transient_attachment")
          /\ a.usage \ {"transient_attachment", "color_attachment",
                        "depth_stencil_attachment", "input_attachment"} # {}
    THEN UnsupportedUsage
    ELSE NoError

\* ImageDimensions::max_mipmaps
max_mipmaps(dims) == BitLen(BitOr(BitOr(dims.width, dims.height), dims.depth))

\* debug_assert!(max_mipmaps >= 1) of the Specific arm
MipmapsAssertFails(dbg, a) ==
    dbg /\ a.mipmaps.kind = "Specific" /\ ~(max_mipmaps(a.dimensions) >= 1)

\* MipmapsFatal reporting a range that starts at 0
MipmapsFatal_RangeFromZero(a) ==
    IF a.mipmaps.kind = "Specific" /\ a.mipmaps.num < 1
    THEN InvalidMipmapsCount(a.mipmaps.num, 0, max_mipmaps(a.dimensions) + 1)
    ELSE NoError

MipmapsFatal(a) ==
    IF a.mipmaps.kind = "Specific" /\ a.mipmaps.num < 1
    THEN InvalidMipmapsCount(a.mipmaps.num, 1, max_mipmaps(a.dimensions) + 1)
    ELSE NoError

MipmapsDeferred(a) ==
    IF a.mipmaps.kind = "Specific" /\ ~(a.mipmaps.num < 1)
          /\ a.mipmaps.num > max_mipmaps(a.dimensions)
    THEN InvalidMipmapsCount(a.mipmaps.num, 1, max_mipmaps(a.dimensions) + 1)
    ELSE NoError

\* ResolveMipmaps clamping an explicit count to the maximum
ResolveMipmaps_Clamped(a) ==
    CASE a.mipmaps.kind = "Specific" ->
            IF a.mipmaps.num > max_mipmaps(a.dimensions)
            THEN max_mipmaps(a.dimensions) ELSE a.mipmaps.num
      [] a.mipmaps.kind = "Log2" -> max_mipmaps(a.dimensions)
      [] a.mipmaps.kind = "One" -> 1

\* the value of `mipmaps` after the match
ResolveMipmaps(a) ==
    CASE a.mipmaps.kind = "Specific" -> a.mipmaps.num
      [] a.mipmaps.kind = "Log2" -> max_mipmaps(a.dimensions)
      [] a.mipmaps.kind = "One" -> 1

AttachmentUsage(usage) ==
    Has(usage, "color_attachment") \/ Has(usage, "depth_stencil_attachment")
        \/ Has(usage, "input_attachment") \/ Has(usage, "transient_attachment")

\* supported_samples after the sampled-usage match
SampledSamples(ty, mask) ==
    CASE ty \in {"Float", "Compressed"} ->
            BitAnd(mask, Limits.sampled_image_color_sample_counts)
      [] ty \in {"Uint", "Sint"} ->
            BitAnd(mask, Limits.sampled_image_integer_sample_counts)
      [] ty = "Depth" -> BitAnd(mask, Limits.sampled_image_depth_sample_counts)
      [] ty = "Stencil" -> BitAnd(mask, Limits.sampled_image_stencil_sample_counts)
      [] ty = "DepthStencil" ->
            BitAnd(BitAnd(mask, Limits.sampled_image_depth_sample_counts),
                   Limits.sampled_image_stencil_sample_counts)
      [] ty = "Ycbcr" -> BitAnd(mask, 1)

\* supported_samples after the attachment-usage match (not reached for Ycbcr)
FramebufferSamples(ty, mask) ==
    CASE ty \in {"Float", "Compressed", "Uint", "Sint"} ->
            BitAnd(mask, Limits.framebuffer_color_sample_counts)
      [] ty = "Depth" -> BitAnd(mask, Limits.framebuffer_depth_sample_counts)
      [] ty = "Stencil" -> BitAnd(mask, Limits.framebuffer_stencil_sample_counts)
      [] ty = "DepthStencil" ->
            BitAnd(BitAnd(mask, Limits.framebuffer_depth_sample_counts),
                   Limits.framebuffer_stencil_sample_counts)
      [] OTHER -> mask

\* SupportedSamples starting from 0xff instead of 0x7f
SupportedSamples_AllCounts(a) ==
    LET ty == FormatTable[a.format].ty
        m0 == 255
        m1 == IF Has(a.usage, "sampled") THEN SampledSamples(ty, m0) ELSE m0
        m2 == IF Has(a.usage, "storage")
              THEN BitAnd(m1, Limits.storage_image_sample_counts) ELSE m1
    IN  IF AttachmentUsage(a.usage) THEN FramebufferSamples(ty, m2) ELSE m2

\* the final supported_samples mask
SupportedSamples(a) ==
    LET ty == FormatTable[a.format].ty
        m0 == 127
        m1 == IF Has(a.usage, "sampled") THEN SampledSamples(ty, m0) ELSE m0
        m2 == IF Has(a.usage, "storage")
              THEN BitAnd(m1, Limits.storage_image_sample_counts) ELSE m1
    IN  IF AttachmentUsage(a.usage) THEN FramebufferSamples(ty, m2) ELSE m2

\* SamplesFatal without the rejection of a YCbCr format used as an attachment
SamplesFatal_NoYcbcrRule(a) ==
    IF a.num_samples = 0 THEN UnsupportedSamplesCount(a.num_samples)
    ELSE IF ~is_power_of_two(a.num_samples) THEN UnsupportedSamplesCount(a.num_samples)
    ELSE NoError

\* SamplesFatal without the power-of-two test
SamplesFatal_ZeroOnly(a) ==
    IF a.num_samples = 0 THEN UnsupportedSamplesCount(a.num_samples)
    ELSE IF AttachmentUsage(a.usage) /\ FormatTable[a.format].ty = "Ycbcr"
        THEN UnsupportedUsage
    ELSE NoError

SamplesFatal(a) ==
    IF a.num_samples = 0 THEN UnsupportedSamplesCount(a.num_samples)
    ELSE IF ~is_power_of_two(a.num_samples) THEN UnsupportedSamplesCount(a.num_samples)
    ELSE IF AttachmentUsage(a.usage) /\ FormatTable[a.format].ty = "Ycbcr"
        THEN UnsupportedUsage
    ELSE NoError

SamplesDeferred(a) ==
    IF BitAnd(a.num_samples, SupportedSamples(a)) = 0
    THEN UnsupportedSamplesCount(a.num_samples)
    ELSE NoError

\* StorageMultisampleCheck that compares the sample count with 2
StorageMultisampleCheck_OffByOne(dev, a) ==
    IF Has(a.usage, "storage") /\ a.num_samples > 2
          /\ ~dev.enabled_features.shader_storage_image_multisample
    THEN ShaderStorageImageMultisampleFeatureNotEnabled
    ELSE NoError

StorageMultisampleCheck(dev, a) ==
    IF Has(a.usage, "storage") /\ a.num_samples > 1
          /\ ~dev.enabled_features.shader_storage_image_multisample
    THEN ShaderStorageImageMultisampleFeatureNotEnabled
    ELSE NoError

\* (ty, extent, array_layers) of the decoded dimensions
ImageType(dims) ==
    CASE dims.kind = "Dim1d" -> "IMAGE_TYPE_1D"
      [] dims.kind = "Dim2d" -> "IMAGE_TYPE_2D"
      [] dims.kind = "Dim3d" -> "IMAGE_TYPE_3D"

Extent(dims) ==
    CASE dims.kind = "Dim1d" -> [width |-> dims.width, height |-> 1, depth |-> 1]
      [] dims.kind = "Dim2d" -> [width |-> dims.width, height |-> dims.height, depth |-> 1]
      [] dims.kind = "Dim3d" ->
            [width |-> dims.width, height |-> dims.height, depth |-> dims.depth]

ArrayLayers(dims) == IF dims.kind = "Dim3d" THEN 1 ELSE dims.array_layers

\* DimensionsFatal without the test of the array layers
DimensionsFatal_NoLayers(a) ==
    LET d == a.dimensions
        zero == CASE d.kind = "Dim1d" -> d.width = 0
                  [] d.kind = "Dim2d" -> d.width = 0 \/ d.height = 0
                  [] d.kind = "Dim3d" -> d.width = 0 \/ d.height = 0 \/ d.depth = 0
    IN  IF zero THEN UnsupportedDimensions(d) ELSE NoError

DimensionsFatal(a) ==
    LET d == a.dimensions
        zero == CASE d.kind = "Dim1d" -> d.width = 0 \/ d.array_layers = 0
                  [] d.kind = "Dim2d" -> d.width = 0 \/ d.height = 0 \/ d.array_layers = 0
                  [] d.kind = "Dim3d" -> d.width = 0 \/ d.height = 0 \/ d.depth = 0
    IN  IF zero THEN UnsupportedDimensions(d) ELSE NoError

\* FlagsCheck that does not ask a cube-compatible image for six layers
FlagsCheck_NoLayers(a) ==
    LET ty == ImageType(a.dimensions)
        extent == Extent(a.dimensions)
    IN  IF Has(a.flags, "cube_compatible")
             /\ ~(ty = "IMAGE_TYPE_2D" /\ extent.width = extent.height)
        THEN CreationFlagRequirementsNotMet
        ELSE IF Has(a.flags, "array_2d_compatible") /\ ~(ty = "IMAGE_TYPE_3D")
        THEN CreationFlagRequirementsNotMet
        ELSE NoError

FlagsCheck(a) ==
    LET ty == ImageType(a.dimensions)
        extent == Extent(a.dimensions)
    IN  IF Has(a.flags, "cube_compatible")
             /\ ~(ty = "IMAGE_TYPE_2D" /\ extent.width = extent.height
                  /\ ArrayLayers(a.dimensions) >= 6)
        THEN CreationFlagRequirementsNotMet
        ELSE IF Has(a.flags, "array_2d_compatible") /\ ~(ty = "IMAGE_TYPE_3D")
        THEN CreationFlagRequirementsNotMet
        ELSE NoError

LimitsDeferred(a) ==
    LET ty == ImageType(a.dimensions)
        extent == Extent(a.dimensions)
        over ==
            \/ ArrayLayers(a.dimensions) > Limits.max_image_array_layers
            \/ ty = "IMAGE_TYPE_1D" /\ extent.width > Limits.max_image_dimension_1d
            \/ ty = "IMAGE_TYPE_2D"
                /\ (extent.width > Limits.max_image_dimension_2d
                    \/ extent.height > Limits.max_image_dimension_2d)
            \/ ty = "IMAGE_TYPE_2D" /\ Has(a.flags, "cube_compatible")
                /\ extent.width > Limits.max_image_dimension_cube
            \/ ty = "IMAGE_TYPE_3D"
                /\ (extent.width > Limits.max_image_dimension_3d
                    \/ extent.height > Limits.max_image_dimension_3d
                    \/ extent.depth > Limits.max_image_dimension_3d)
    IN  IF over THEN UnsupportedDimensions(a.dimensions) ELSE NoError

\* CapabilitiesError keeping the error recorded first
CapabilitiesError_FirstWins(a) ==
    IF MipmapsDeferred(a) # NoError THEN MipmapsDeferred(a)
    ELSE IF SamplesDeferred(a) # NoError THEN SamplesDeferred(a)
    ELSE LimitsDeferred(a)

\* capabilities_error once every check has run: a later write replaces an earlier one
CapabilitiesError(a) ==
    IF LimitsDeferred(a) # NoError THEN LimitsDeferred(a)
    ELSE IF SamplesDeferred(a) # NoError THEN SamplesDeferred(a)
    ELSE MipmapsDeferred(a)

\* ------------------------------------------------------- driver and calls
\* From<Error> for ImageCreationError; what is no out-of-memory error panics
Panic(msg) == [Error("Panic", 0, <<0, 0>>, NoDimensions) EXCEPT !.source = msg]

FromError(err) ==
    CASE err = "OutOfHostMemory" -> AllocError(err)
      [] err = "OutOfDeviceMemory" -> AllocError(err)
      [] OTHER -> Panic("unexpected error")

\* FallbackQuery without the comparison of the mipmap count
FallbackQuery_NoMipmaps(drv, a) ==
    LET r == drv.fallback.r
        output == drv.fallback.output
        extent == Extent(a.dimensions)
    IN  IF r = "FormatNotSupported" THEN FormatNotSupported
        ELSE IF r # "Success" THEN FromError(r)
        ELSE IF \/ extent.width > output.maxExtent.width
                \/ extent.height > output.maxExtent.height
                \/ extent.depth > output.maxExtent.depth
                \/ ArrayLayers(a.dimensions) > output.maxArrayLayers
                \/ BitAnd(a.num_samples, output.sampleCounts) = 0
            THEN CapabilitiesError(a)
        ELSE NoError

\* FallbackQuery without the comparison of the sample count
FallbackQuery_NoSamples(drv, a) ==
    LET r == drv.fallback.r
        output == drv.fallback.output
        extent == Extent(a.dimensions)
    IN  IF r = "FormatNotSupported" THEN FormatNotSupported
        ELSE IF r # "Success" THEN FromError(r)
        ELSE IF \/ extent.width > output.maxExtent.width
                \/ extent.height > output.maxExtent.height
                \/ extent.depth > output.maxExtent.depth
                \/ ResolveMipmaps(a) > output.maxMipLevels
                \/ ArrayLayers(a.dimensions) > output.maxArrayLayers
            THEN CapabilitiesError(a)
        ELSE NoError

\* FallbackQuery returning the recorded error when the query fails
FallbackQuery_DeferredOnFailure(drv, a) ==
    LET r == drv.fallback.r
        output == drv.fallback.output
        extent == Extent(a.dimensions)
    IN  IF r # "Success" THEN CapabilitiesError(a)
        ELSE IF \/ extent.width > output.maxExtent.width
                \/ extent.height > output.maxExtent.height
                \/ extent.depth > output.maxExtent.depth
                \/ ResolveMipmaps(a) > output.maxMipLevels
                \/ ArrayLayers(a.dimensions) > output.maxArrayLayers
                \/ BitAnd(a.num_samples, output.sampleCounts) = 0
            THEN CapabilitiesError(a)
        ELSE NoError

\* the block run when capabilities_error is Some: the driver's answer decides
FallbackQuery(drv, a) ==
    LET r == drv.fallback.r
        output == drv.fallback.output
        extent == Extent(a.dimensions)
    IN  IF r = "FormatNotSupported" THEN FormatNotSupported
        ELSE IF r # "Success" THEN FromError(r)
        ELSE IF \/ extent.width > output.maxExtent.width
                \/ extent.height > output.maxExtent.height
                \/ extent.depth > output.maxExtent.depth
                \/ ResolveMipmaps(a) > output.maxMipLevels
                \/ ArrayLayers(a.dimensions) > output.maxArrayLayers
                \/ BitAnd(a.num_samples, output.sampleCounts) = 0
            THEN CapabilitiesError(a)
        ELSE NoError

\* the vk::ImageCreateInfo passed to vkCreateImage
CreateInfo(a) ==
    [flags |-> a.flags,
     imageType |-> ImageType(a.dimensions),
     format |-> a.format,
     extent |-> Extent(a.dimensions),
     mipLevels |-> ResolveMipmaps(a),
     arrayLayers |-> ArrayLayers(a.dimensions),
     samples |-> a.num_samples,
     tiling |-> IF a.linear_tiling THEN "IMAGE_TILING_LINEAR" ELSE "IMAGE_TILING_OPTIMAL",
     usage |-> a.usage,
     initialLayout |-> IF a.preinitialized_layout
                       THEN "IMAGE_LAYOUT_PREINITIALIZED" ELSE "IMAGE_LAYOUT_UNDEFINED"]

\* check_errors(vk.CreateImage(..))?
CreateImage(drv) ==
    IF drv.create_result = "Success" THEN NoError ELSE FromError(drv.create_result)

\* MemoryRequirements::from_vulkan_reqs
from_vulkan_reqs(reqs) ==
    [size |-> reqs.size, alignment |-> reqs.alignment,
     memory_type_bits |-> reqs.memoryTypeBits, prefer_dedicated |-> FALSE]

NoRequirements ==
    [size |-> 0, alignment |-> 0, memory_type_bits |-> 0, prefer_dedicated |-> FALSE]

\* the driver call the requirements block makes
RequirementsCall(dev) ==
    IF Has(dev.loaded_extensions, "khr_get_memory_requirements2")
    THEN "GetImageMemoryRequirements2KHR"
    ELSE "GetImageMemoryRequirements"

\* the debug assertions of the requirements block
RequirementsAssertFails(dev, drv, dbg) ==
    /\ dbg
    /\ \/ ~(drv.requirements.memoryTypeBits # 0)
       \/ /\ Has(dev.loaded_extensions, "khr_get_memory_requirements2")
          /\ Has(dev.loaded_extensions, "khr_dedicated_allocation")
          /\ drv.requirements.requiresDedicatedAllocation

\* GetRequirements reading the hint without asking for khr_dedicated_allocation
GetRequirements_HintWithoutExtension(dev, drv) ==
    IF Has(dev.loaded_extensions, "khr_get_memory_requirements2")
    THEN [from_vulkan_reqs(drv.requirements) EXCEPT
             !.prefer_dedicated = drv.requirements.prefersDedicatedAllocation]
    ELSE from_vulkan_reqs(drv.requirements)

\* mem_reqs
GetRequirements(dev, drv) ==
    IF Has(dev.loaded_extensions, "khr_get_memory_requirements2")
          /\ Has(dev.loaded_extensions, "khr_dedicated_allocation")
    THEN [from_vulkan_reqs(drv.requirements) EXCEPT
             !.prefer_dedicated = drv.requirements.prefersDedicatedAllocation]
    ELSE from_vulkan_reqs(drv.requirements)

\* NewImage storing a sample count of 1 whatever was requested
NewImage_OneSample(a) ==
    [image |-> "created",
     usage |-> a.usage,
     format |-> a.format,
     flags |-> a.flags,
     dimensions |-> a.dimensions,
     samples |-> 1,
     mipmaps |-> ResolveMipmaps(a),
     format_features |-> TilingFeatures(a),
     needs_destruction |-> TRUE,
     preinitialized_layout |-> a.preinitialized_layout]

\* the UnsafeImage value new_impl builds
NewImage(a) ==
    [image |-> "created",
     usage |-> a.usage,
     format |-> a.format,
     flags |-> a.flags,
     dimensions |-> a.dimensions,
     samples |-> a.num_samples,
     mipmaps |-> ResolveMipmaps(a),
     format_features |-> TilingFeatures(a),
     needs_destruction |-> TRUE,
     preinitialized_layout |-> a.preinitialized_layout]

\* first fatal result of the checks that precede the fallback query
Validate(dev, dbg, a) ==
    IF UnimplementedFlags(a) THEN Panic("not implemented")
    ELSE IF FormatFeaturesCheck(dev, a) # NoError THEN FormatFeaturesCheck(dev, a)
    ELSE IF UsageNoneCheck(a) # NoError THEN UsageNoneCheck(a)
    ELSE IF TransientCheck(a) # NoError THEN TransientCheck(a)
    ELSE IF MipmapsAssertFails(dbg, a) THEN Panic("assertion failed: max_mipmaps >= 1")
    ELSE IF MipmapsFatal(a) # NoError THEN MipmapsFatal(a)
    ELSE IF SamplesFatal(a) # NoError THEN SamplesFatal(a)
    ELSE IF StorageMultisampleCheck(dev, a) # NoError THEN StorageMultisampleCheck(dev, a)
    ELSE IF DimensionsFatal(a) # NoError THEN DimensionsFatal(a)
    ELSE FlagsCheck(a)

Kind(error) ==
    CASE error.tag = "None" -> "Ok"
      [] error.tag = "Panic" -> "Panic"
      [] OTHER -> "Err"

\* What one call of new_impl does: its result, the driver calls it made in
\* order, and whether vkCreateImage created an image.
Outcome(error, calls, created, a, reqs) ==
    [kind |-> Kind(error), error |-> error, calls |-> calls, created |-> created,
     image |-> IF error = NoError THEN <<NewImage(a)>> ELSE <<>>,
     mem_reqs |-> reqs]

\* new_impl issuing the fallback query before the fatal checks have run
new_impl_QueryFirst(dev, drv, dbg, a) ==
    LET fatal == Validate(dev, dbg, a)
        queried == CapabilitiesError(a) # NoError
        fallback == IF queried THEN FallbackQuery(drv, a) ELSE NoError
        calls1 == IF queried THEN <<"GetPhysicalDeviceImageFormatProperties">> ELSE <<>>
        calls2 == Append(calls1, "CreateImage")
        calls3 == Append(calls2, RequirementsCall(dev))
    IN  IF fallback # NoError THEN Outcome(fallback, calls1, FALSE, a, NoRequirements)
        ELSE IF fatal # NoError THEN Outcome(fatal, calls1, FALSE, a, NoRequirements)
        ELSE IF CreateImage(drv) # NoError
            THEN Outcome(CreateImage(drv), calls2, FALSE, a, NoRequirements)
        ELSE IF RequirementsAssertFails(dev, drv, dbg)
            THEN Outcome(Panic("assertion failed"), calls3, TRUE, a, NoRequirements)
        ELSE Outcome(NoError, calls3, TRUE, a, GetRequirements(dev, drv))

new_impl(dev, drv, dbg, a) ==
    LET fatal == Validate(dev, dbg, a)
        queried == CapabilitiesError(a) # NoError
        fallback == IF queried THEN FallbackQuery(drv, a) ELSE NoError
        calls1 == IF queried THEN <<"GetPhysicalDeviceImageFormatProperties">> ELSE <<>>
        calls2 == Append(calls1, "CreateImage")
        calls3 == Append(calls2, RequirementsCall(dev))
    IN  IF fatal # NoError THEN Outcome(fatal, <<>>, FALSE, a, NoRequirements)
        ELSE IF fallback # NoError THEN Outcome(fallback, calls1, FALSE, a, NoRequirements)
        ELSE IF CreateImage(drv) # NoError
            THEN Outcome(CreateImage(drv), calls2, FALSE, a, NoRequirements)
        ELSE IF RequirementsAssertFails(dev, drv, dbg)
            THEN Outcome(Panic("assertion failed"), calls3, TRUE, a, NoRequirements)
        ELSE Outcome(NoError, calls3, TRUE, a, GetRequirements(dev, drv))

\* from_raw marking the image as owned
from_raw_Owned(handle, usage, format, flags, dimensions, samples, mipmaps) ==
    [image |-> handle,
     usage |-> usage,
     format |-> format,
     flags |-> flags,
     dimensions |-> dimensions,
     samples |-> samples,
     mipmaps |-> mipmaps,
     format_features |-> FormatTable[format].optimal,
     needs_destruction |-> TRUE,
     preinitialized_layout |-> FALSE]

\* the UnsafeImage value from_raw builds
from_raw(handle, usage, format, flags, dimensions, samples, mipmaps) ==
    [image |-> handle,
     usage |-> usage,
     format |-> format,
     flags |-> flags,
     dimensions |-> dimensions,
     samples |-> samples,
     mipmaps |-> mipmaps,
     format_features |-> FormatTable[format].optimal,
     needs_destruction |-> FALSE,
     preinitialized_layout |-> FALSE]

\* DropCalls with the test of needs_destruction inverted
DropCalls_Inverted(img) == IF img.needs_destruction THEN <<>> ELSE <<"DestroyImage">>

\* the driver calls Drop::drop makes for an image
DropCalls(img) == IF ~img.needs_destruction THEN <<>> ELSE <<"DestroyImage">>

\* ------------------------------------------------------------ bind_memory
\* memory.size() - offset in usize: it overflows when the offset is past the
\* block; a build with overflow checks panics there
BindOverflows(memory, offset) == offset > memory.size

\* mem_reqs.size <= (memory.size() - offset) as u64; on a build without
\* overflow checks the difference wraps to 2^64 - (offset - size), which no
\* requirement of the driver exceeds
FitsPastOffset(reqs, memory, offset) ==
    IF offset > memory.size THEN TRUE ELSE reqs.size <= memory.size - offset

\* 1 << id, as a bit of memoryTypeBits
RECURSIVE Shl(_, _)
Shl(x, n) == IF n = 0 THEN x ELSE Shl(2 * x, n - 1)

\* BindAssertion without the test of the alignment
BindAssertion_NoAlignment(reqs, memory, offset) ==
    /\ FitsPastOffset(reqs, memory, offset)
    /\ BitAnd(reqs.memoryTypeBits, Shl(1, memory.memory_type)) # 0

\* the value of the block inside debug_assert!
BindAssertion(reqs, memory, offset) ==
    /\ FitsPastOffset(reqs, memory, offset)
    /\ offset % reqs.alignment = 0
    /\ BitAnd(reqs.memoryTypeBits, Shl(1, memory.memory_type)) # 0

\* From<Error> for OomError
OomFromError(err) ==
    CASE err = "OutOfHostMemory" -> AllocError(err)
      [] err = "OutOfDeviceMemory" -> AllocError(err)
      [] OTHER -> Panic("unexpected error")

\* bind_memory: its result and the driver calls it makes
bind_memory(drv, build, memory, offset) ==
    LET query == IF build.debug_assertions THEN <<"GetImageMemoryRequirements">> ELSE <<>>
        bound == Append(query, "BindImageMemory")
    IN  IF build.debug_assertions /\ build.overflow_checks /\ BindOverflows(memory, offset)
        THEN [error |-> Panic("attempt to subtract with overflow"), calls |-> query]
        ELSE IF build.debug_assertions /\ ~BindAssertion(drv.requirements, memory, offset)
        THEN [error |-> Panic("assertion failed"), calls |-> query]
        ELSE IF drv.bind_result = "Success" THEN [error |-> NoError, calls |-> bound]
        ELSE [error |-> OomFromError(drv.bind_result), calls |-> bound]

\* ------------------------------------------------------------ linear layout
\* the aspect color_linear_layout, depth_linear_layout and stencil_linear_layout pass
LayoutAspect(fn) ==
    CASE fn = "color_linear_layout" -> "Color"
      [] fn = "depth_linear_layout" -> "Depth"
      [] fn = "stencil_linear_layout" -> "Stencil"

\* linear_layout_impl
linear_layout_impl(img, mip_level, aspect) ==
    IF ~(mip_level < img.mipmaps)
    THEN [error |-> Panic("assertion failed: mip_level < self.mipmaps"), calls |-> <<>>]
    ELSE [error |-> NoError, calls |-> <<"GetImageSubresourceLayout">>]

\* multiplane_color_layout accepting Plane2 for every YCbCr format
multiplane_color_layout_AnyPlane2(img, aspect) ==
    IF ~(aspect \in {"Color", "Plane0", "Plane1", "Plane2"})
    THEN [error |-> Panic("assertion failed: matches!(aspect, ..)"), calls |-> <<>>]
    ELSE IF ~(img.mipmaps = 1)
    THEN [error |-> Panic("assertion failed: self.mipmaps == 1"), calls |-> <<>>]
    ELSE IF aspect \in {"Plane0", "Plane1", "Plane2"}
            /\ ~(FormatTable[img.format].ty = "Ycbcr")
    THEN [error |-> Panic("assertion failed: format.ty() == Ycbcr"), calls |-> <<>>]
    ELSE linear_layout_impl(img, 0, aspect)

\* multiplane_color_layout
multiplane_color_layout(img, aspect) ==
    IF ~(aspect \in {"Color", "Plane0", "Plane1", "Plane2"})
    THEN [error |-> Panic("assertion failed: matches!(aspect, ..)"), calls |-> <<>>]
    ELSE IF ~(img.mipmaps = 1)
    THEN [error |-> Panic("assertion failed: self.mipmaps == 1"), calls |-> <<>>]
    ELSE IF aspect \in {"Plane0", "Plane1", "Plane2"}
            /\ ~(FormatTable[img.format].ty = "Ycbcr")
    THEN [error |-> Panic("assertion failed: format.ty() == Ycbcr"), calls |-> <<>>]
    ELSE IF aspect = "Plane2" /\ ~(img.format = "G8B8R8_3PLANE420Unorm")
    THEN [error |-> Panic("assertion failed: format == G8B8R8_3PLANE420Unorm"),
          calls |-> <<>>]
    ELSE linear_layout_impl(img, 0, aspect)

\* one of the four public layout queries
LayoutQuery(img, q) ==
    IF q.fn = "multiplane_color_layout" THEN multiplane_color_layout(img, q.aspect)
    ELSE linear_layout_impl(img, q.mip_level, LayoutAspect(q.fn))

\* ------------------------------------------------------------- scenarios
Specific(n) == [kind |-> "Specific", num |-> n]
Log2 == [kind |-> "Log2", num |-> 0]
One == [kind |-> "One", num |-> 0]

FallbackOutput(w, h, d, mips, layers, samples) ==
    [maxExtent |-> [width |-> w, height |-> h, depth |-> d],
     maxMipLevels |-> mips, maxArrayLayers |-> layers, sampleCounts |-> samples]

\* the answers of vkGetPhysicalDeviceImageFormatProperties: everything asked
\* for is supported, one of the six values is too small, or the query fails
FallbackAnswers ==
    {[r |-> "Success", output |-> o] :
        o \in {FallbackOutput(8, 8, 8, 8, 8, 255),
               FallbackOutput(1, 8, 8, 8, 8, 255),
               FallbackOutput(8, 1, 8, 8, 8, 255),
               FallbackOutput(8, 8, 1, 8, 8, 255),
               FallbackOutput(8, 8, 8, 1, 8, 255),
               FallbackOutput(8, 8, 8, 8, 1, 255),
               FallbackOutput(8, 8, 8, 8, 8, 1)}}
      \cup {[r |-> e, output |-> FallbackOutput(0, 0, 0, 0, 0, 0)] :
              e \in {"FormatNotSupported", "OutOfHostMemory", "OutOfDeviceMemory",
                     "DeviceLost"}}

\* what a caller, a device and a driver may be: one value set per parameter
Dom ==
    [sampled |-> BOOLEAN, storage |-> BOOLEAN, color_attachment |-> BOOLEAN,
     depth_stencil_attachment |-> BOOLEAN, input_attachment |-> BOOLEAN,
     transient_attachment |-> BOOLEAN, transfer_source |-> BOOLEAN,
     transfer_destination |-> BOOLEAN,
     format |-> Formats,
     sparse_binding |-> BOOLEAN, sparse_residency |-> BOOLEAN, sparse_aliased |-> BOOLEAN,
     mutable_format |-> BOOLEAN, cube_compatible |-> BOOLEAN,
     array_2d_compatible |-> BOOLEAN,
     dim_kind |-> {"Dim1d", "Dim2d", "Dim3d"},
     width |-> 0..MaxExtent, height |-> 0..MaxExtent, depth |-> 0..MaxExtent,
     array_layers |-> {0, 1, MaxLayers - 1, MaxLayers},
     num_samples |-> (0..MaxSamples) \cup {128},
     mipmaps |-> {Specific(n) : n \in 0..MaxMipmaps} \cup {Log2, One},
     linear_tiling |-> BOOLEAN, preinitialized_layout |-> BOOLEAN,
     loaded_extensions |-> SUBSET Extensions,
     shader_storage_image_multisample |-> BOOLEAN,
     debug_assertions |-> BOOLEAN,
     fallback |-> FallbackAnswers,
     create_result |-> {"Success", "OutOfHostMemory", "OutOfDeviceMemory", "DeviceLost"},
     memoryTypeBits |-> {0, 1, 2},
     prefersDedicatedAllocation |-> BOOLEAN,
     requiresDedicatedAllocation |-> BOOLEAN,
     size |-> {1, 2}, alignment |-> {1, 2},
     bind_result |-> {"Success", "OutOfHostMemory", "OutOfDeviceMemory"},
     overflow_checks |-> BOOLEAN,
     memory_size |-> 1..MaxMemory, memory_type |-> {0, 1}, offset |-> 0..(MaxMemory + 1),
     layout_fn |-> {"color_linear_layout", "depth_linear_layout", "stencil_linear_layout",
                    "multiplane_color_layout"},
     mip_level |-> 0..MaxMipLevel,
     aspect |-> Aspects]

\* the parameters that vary when the claims are about creation ...
CreationFields ==
    UsageBits \cup CreateFlags \cup
    {"format", "dim_kind", "width", "height", "depth", "array_layers", "num_samples",
     "mipmaps", "linear_tiling", "preinitialized_layout", "loaded_extensions",
     "shader_storage_image_multisample", "debug_assertions", "fallback", "create_result",
     "memoryTypeBits", "prefersDedicatedAllocation", "requiresDedicatedAllocation"}

\* ... and when they are about the use of an image
UseFields ==
    {"format", "mipmaps", "loaded_extensions", "debug_assertions", "overflow_checks",
     "memoryTypeBits", "size", "alignment", "bind_result", "memory_size", "memory_type",
     "offset", "layout_fn", "mip_level", "aspect", "linear_tiling", "height"}

RECURSIVE SetToSeq(_)
SetToSeq(S) ==
    IF S = {} THEN <<>>
    ELSE LET x == CHOOSE y \in S : TRUE IN <<x>> \o SetToSeq(S \ {x})

\* tests::create_sampled on a device without extensions or features, in a debug
\* build, with a driver that supports what it is asked for (32 texels scaled to 2)
Base ==
    [sampled |-> TRUE, storage |-> FALSE, color_attachment |-> FALSE,
     depth_stencil_attachment |-> FALSE, input_attachment |-> FALSE,
     transient_attachment |-> FALSE, transfer_source |-> FALSE,
     transfer_destination |-> FALSE,
     format |-> "R8G8B8A8Unorm",
     sparse_binding |-> FALSE, sparse_residency |-> FALSE, sparse_aliased |-> FALSE,
     mutable_format |-> FALSE, cube_compatible |-> FALSE, array_2d_compatible |-> FALSE,
     dim_kind |-> "Dim2d", width |-> 2, height |-> 2, depth |-> 0, array_layers |-> 1,
     num_samples |-> 1,
     mipmaps |-> Specific(1),
     linear_tiling |-> FALSE, preinitialized_layout |-> FALSE,
     loaded_extensions |-> {},
     shader_storage_image_multisample |-> FALSE,
     debug_assertions |-> TRUE,
     fallback |-> [r |-> "Success", output |-> FallbackOutput(8, 8, 8, 8, 8, 255)],
     create_result |-> "Success",
     memoryTypeBits |-> 1,
     prefersDedicatedAllocation |-> TRUE,
     requiresDedicatedAllocation |-> FALSE,
     size |-> 2, alignment |-> 2,
     bind_result |-> "Success",
     overflow_checks |-> TRUE,
     memory_size |-> 4, memory_type |-> 0, offset |-> 2,
     layout_fn |-> "color_linear_layout", mip_level |-> 0, aspect |-> "Color"]

\* an ImageDimensions value: Dim1d has no height, only Dim3d has a depth and
\* no array layers (the accessors of the absent ones return 1)
Dimensions(s) ==
    CASE s.dim_kind = "Dim1d" ->
            [kind |-> "Dim1d", width |-> s.width, height |-> 1, depth |-> 1,
             array_layers |-> s.array_layers]
      [] s.dim_kind = "Dim2d" ->
            [kind |-> "Dim2d", width |-> s.width, height |-> s.height, depth |-> 1,
             array_layers |-> s.array_layers]
      [] s.dim_kind = "Dim3d" ->
            [kind |-> "Dim3d", width |-> s.width, height |-> s.height, depth |-> s.depth,
             array_layers |-> 1]

\* the arguments of UnsafeImage::new
Args(s) ==
    [usage |-> {u \in UsageBits : s[u]},
     format |-> s.format,
     flags |-> {f \in CreateFlags : s[f]},
     dimensions |-> Dimensions(s),
     num_samples |-> s.num_samples,
     mipmaps |-> s.mipmaps,
     linear_tiling |-> s.linear_tiling,
     preinitialized_layout |-> s.preinitialized_layout]

Device(s) ==
    [loaded_extensions |-> s.loaded_extensions,
     enabled_features |->
        [shader_storage_image_multisample |-> s.shader_storage_image_multisample]]

Driver(s) ==
    [fallback |-> s.fallback,
     create_result |-> s.create_result,
     requirements |->
        [size |-> s.size, alignment |-> s.alignment, memoryTypeBits |-> s.memoryTypeBits,
         prefersDedicatedAllocation |-> s.prefersDedicatedAllocation,
         requiresDedicatedAllocation |-> s.requiresDedicatedAllocation],
     bind_result |-> s.bind_result]

Build(s) == [debug_assertions |-> s.debug_assertions, overflow_checks |-> s.overflow_checks]

\* what the caller does with the image: the block and offset it binds, the
\* layout it asks for
Request(s) ==
    [memory |-> [size |-> s.memory_size, memory_type |-> s.memory_type],
     offset |-> s.offset,
     layout |->
        IF s.layout_fn = "multiplane_color_layout"
        THEN [fn |-> s.layout_fn, mip_level |-> 0, aspect |-> s.aspect]
        ELSE [fn |-> s.layout_fn, mip_level |-> s.mip_level,
              aspect |-> LayoutAspect(s.layout_fn)]]

\* ------------------------------------------------------------------ state
VARIABLES
    device,     \* the Arc<Device> the caller holds
    driver,     \* how the Vulkan implementation answers
    build,      \* whether the build checks debug_assert! and integer overflow
    args,       \* the descriptor the caller passes
    request,    \* the memory the caller binds and the layout it asks for
    pc,         \* "start", "failed", "live" or "dropped"
    image,      \* <<the UnsafeImage the caller owns>>, or <<>>
    last,       \* what the last operation did
    vk_images,  \* the images that exist in the driver
    vk_destroyed \* how often vkDestroyImage was called for each image

vars == <<device, driver, build, args, request, pc, image, last, vk_images, vk_destroyed>>

env == <<device, driver, build, args, request>>

NativeImages == {"created", "swapchain"}

Result(op, kind, error, calls, reqs) ==
    [op |-> op, kind |-> kind, error |-> error, calls |-> calls, mem_reqs |-> reqs]

\* The caller, the device and the driver differ from Base in at most three of
\* the parameters F.
InitOver(F) ==
    /\ \E i1 \in 1..Len(F) : \E i2 \in i1..Len(F) : \E i3 \in i2..Len(F) :
         \E v1 \in Dom[F[i1]], v2 \in Dom[F[i2]], v3 \in Dom[F[i3]] :
            LET s == [[[Base EXCEPT ![F[i1]] = v1] EXCEPT ![F[i2]] = v2]
                        EXCEPT ![F[i3]] = v3]
            IN  /\ device = Device(s)
                /\ driver = Driver(s)
                /\ build = Build(s)
                /\ args = Args(s)
                /\ request = Request(s)
    /\ pc = "start"
    /\ image = <<>>
    /\ last = Result("none", "Ok", NoError, <<>>, NoRequirements)
    /\ vk_images = {"swapchain"}
    /\ vk_destroyed = [i \in NativeImages |-> 0]

CreationFieldSeq == SetToSeq(CreationFields)
UseFieldSeq == SetToSeq(UseFields)

Init == InitOver(CreationFieldSeq)
InitUse == InitOver(UseFieldSeq)

\* UnsafeImage::new
New ==
    /\ pc = "start"
    /\ LET o == new_impl(device, driver, build.debug_assertions, args)
       IN  /\ image' = o.image
           /\ pc' = IF o.kind = "Ok" THEN "live" ELSE "failed"
           /\ last' = Result("new", o.kind, o.error, o.calls, o.mem_reqs)
           /\ vk_images' = IF o.created THEN vk_images \cup {"created"} ELSE vk_images
    /\ UNCHANGED <<env, vk_destroyed>>

\* UnsafeImage::from_raw on the swapchain's image, described by the descriptor
FromRaw ==
    /\ pc = "start"
    /\ image' = <<from_raw("swapchain", args.usage, args.format, args.flags,
                           args.dimensions, args.num_samples, ResolveMipmaps(args))>>
    /\ pc' = "live"
    /\ last' = Result("from_raw", "Ok", NoError, <<>>, NoRequirements)
    /\ UNCHANGED <<env, vk_images, vk_destroyed>>

\* UnsafeImage::bind_memory
BindMemory ==
    /\ pc = "live"
    /\ LET o == bind_memory(driver, build, request.memory, request.offset)
       IN  last' = Result("bind_memory", Kind(o.error), o.error, o.calls, NoRequirements)
    /\ UNCHANGED <<env, pc, image, vk_images, vk_destroyed>>

\* color_linear_layout, depth_linear_layout, stencil_linear_layout,
\* multiplane_color_layout
LinearLayout ==
    /\ pc = "live"
    /\ LET o == LayoutQuery(image[1], request.layout)
       IN  last' = Result(request.layout.fn, Kind(o.error), o.error, o.calls, NoRequirements)
    /\ UNCHANGED <<env, pc, image, vk_images, vk_destroyed>>

\* the caller drops the image, or its scope ends: Drop::drop runs
Drop ==
    /\ pc = "live"
    /\ LET img == image[1]
           calls == DropCalls(img)
       IN  /\ last' = Result("drop", "Ok", NoError, calls, NoRequirements)
           /\ vk_images' = IF calls # <<>> THEN vk_images \ {img.image} ELSE vk_images
           /\ vk_destroyed' =
                IF calls # <<>>
                THEN [vk_destroyed EXCEPT ![img.image] = @ + 1]
                ELSE vk_destroyed
    /\ pc' = "dropped"
    /\ UNCHANGED <<env, image>>

Next == New \/ FromRaw \/ BindMemory \/ LinearLayout \/ Drop

Spec == Init /\ [][Next]_vars

SpecUse == InitUse /\ [][Next]_vars

\* ----------------------------------------------------------------- claims
\* the state right after UnsafeImage::new returned or panicked
AfterNew == last.op = "new"

Owned == image # <<>> /\ image[1].image = "created"
Imported == image # <<>> /\ image[1].image = "swapchain"

\* the checks that precede the mipmap count, the sample count, the
\* multisampled-storage rule, the dimensions and the creation flags
PassesUsageRules ==
    /\ ~UnimplementedFlags(args)
    /\ FormatFeaturesCheck(device, args) = NoError
    /\ UsageNoneCheck(args) = NoError
    /\ TransientCheck(args) = NoError

PassesMipmapsRule ==
    /\ PassesUsageRules
    /\ ~MipmapsAssertFails(build.debug_assertions, args)
    /\ MipmapsFatal(args) = NoError

PassesSamplesRule == PassesMipmapsRule /\ SamplesFatal(args) = NoError

PassesDimensionsRule ==
    /\ PassesSamplesRule
    /\ StorageMultisampleCheck(device, args) = NoError
    /\ DimensionsFatal(args) = NoError

\* the format feature a usage bit stands for is among `features`
FeaturePresent(u, features) ==
    CASE u = "sampled" -> "sampled_image" \in features
      [] u = "storage" -> "storage_image" \in features
      [] u = "color_attachment" -> "color_attachment" \in features
      [] u = "depth_stencil_attachment" -> "depth_stencil_attachment" \in features
      [] u = "input_attachment" ->
            "color_attachment" \in features \/ "depth_stencil_attachment" \in features
      [] u = "transfer_source" -> "transfer_src" \in features
      [] u = "transfer_destination" -> "transfer_dst" \in features
      [] OTHER -> FALSE

\* the answer of the fallback query covers every requested value
FallbackCovers ==
    LET out == driver.fallback.output
        d == args.dimensions
    IN  /\ driver.fallback.r = "Success"
        /\ d.width <= out.maxExtent.width
        /\ d.height <= out.maxExtent.height
        /\ d.depth <= out.maxExtent.depth
        /\ ResolveMipmaps(args) <= out.maxMipLevels
        /\ d.array_layers <= out.maxArrayLayers
        /\ BitAnd(args.num_samples, out.sampleCounts) # 0

MipmapsInRange ==
    args.mipmaps.kind = "Specific" =>
        args.mipmaps.num >= 1 /\ args.mipmaps.num <= max_mipmaps(args.dimensions)

SamplesInMask == BitAnd(args.num_samples, SupportedSamples(args)) # 0

WithinLimits == LimitsDeferred(args) = NoError

\* a valid descriptor with exactly one usage bit whose feature is present
ValidSingleUsage ==
    LET d == args.dimensions
    IN  /\ Cardinality(args.usage) = 1
        /\ \A u \in args.usage : FeaturePresent(u, TilingFeatures(args))
        /\ args.flags \cap {"sparse_binding", "sparse_residency", "sparse_aliased",
                            "mutable_format"} = {}
        /\ args.mipmaps.kind = "Specific" => args.mipmaps.num >= 1
        /\ is_power_of_two(args.num_samples)
        /\ ~(FormatTable[args.format].ty = "Ycbcr" /\ AttachmentUsage(args.usage))
        /\ ("storage" \in args.usage /\ args.num_samples > 1)
              => device.enabled_features.shader_storage_image_multisample
        /\ d.width > 0 /\ d.height > 0 /\ d.depth > 0 /\ d.array_layers > 0
        /\ "cube_compatible" \in args.flags
              => d.kind = "Dim2d" /\ d.width = d.height /\ d.array_layers >= 6
        /\ "array_2d_compatible" \in args.flags => d.kind = "Dim3d"
        /\ (MipmapsInRange /\ SamplesInMask /\ WithinLimits) \/ FallbackCovers

\* the accessors of the handle return what was passed to new
Echoes ==
    /\ image[1].format = args.format
    /\ image[1].flags = args.flags
    /\ image[1].dimensions = args.dimensions
    /\ image[1].samples = args.num_samples
    /\ image[1].usage = args.usage

\* the driver creates the image and its requirements pass the assertions of
\* a checked build
DriverCreates ==
    /\ driver.create_result = "Success"
    /\ build.debug_assertions =>
          /\ driver.requirements.memoryTypeBits # 0
          /\ {"khr_get_memory_requirements2", "khr_dedicated_allocation"}
                  \subseteq device.loaded_extensions
                => ~driver.requirements.requiresDedicatedAllocation

\* C1 as stated: for every valid descriptor with exactly one usage bit whose
\* format feature is present, new succeeds and the handle reports the format,
\* flags, dimensions, sample count and usage supplied.
C1_AlwaysSucceeds == (AfterNew /\ ValidSingleUsage) => (last.kind = "Ok" /\ Echoes)

\* C1 (amended): for such a descriptor new succeeds exactly when the driver
\* creates the image and its requirements pass the checked-build assertions;
\* a typed failure is AllocError; and as long as the created handle exists
\* its accessors return exactly the values supplied.
C1_SucceedsIfDriverCreates ==
    /\ (AfterNew /\ ValidSingleUsage) =>
          /\ last.kind = "Ok" <=> DriverCreates
          /\ last.kind = "Err" => last.error.tag = "AllocError"
    /\ Owned => Echoes

C1_Witness ==
    /\ AfterNew /\ ValidSingleUsage /\ last.kind = "Ok" /\ Echoes
    /\ args.usage = {"color_attachment"} /\ args.num_samples = 2

MipmapsTooHigh ==
    args.mipmaps.kind = "Specific" /\ args.mipmaps.num > max_mipmaps(args.dimensions)

\* C4 as stated: an explicit mipmap count above the maximum returns
\* InvalidMipmapsCount with the requested value and a range starting at 1,
\* unless the fallback query reports a maximum mipmap count at least as
\* large, in which case the count is accepted.
C4_InvalidUnlessFallbackMipmaps ==
    (AfterNew /\ MipmapsTooHigh) =>
        IF driver.fallback.r = "Success"
              /\ driver.fallback.output.maxMipLevels >= args.mipmaps.num
        THEN last.error.tag # "InvalidMipmapsCount"
        ELSE /\ last.kind = "Err"
             /\ last.error.tag = "InvalidMipmapsCount"
             /\ last.error.obtained = args.mipmaps.num
             /\ last.error.valid_range[1] = 1

\* C4 (amended): when no fatal check fires and the mipmap count is the only
\* deferred error, new issues the fallback query and returns
\* InvalidMipmapsCount (requested value, range starting at 1) exactly when
\* the query succeeds and one of its six answers (extent, mip levels, array
\* layers, sample counts) is below the request; when the query covers the
\* request the count is accepted unchanged; when the query fails, its own
\* error is returned.
C4_InvalidUnlessFallbackCovers ==
    (AfterNew /\ MipmapsTooHigh /\ Validate(device, build.debug_assertions, args) = NoError
        /\ SamplesInMask /\ WithinLimits) =>
        /\ last.calls # <<>> /\ last.calls[1] = "GetPhysicalDeviceImageFormatProperties"
        /\ FallbackCovers =>
              /\ last.error.tag # "InvalidMipmapsCount"
              /\ last.kind = "Ok" => image[1].mipmaps = args.mipmaps.num
        /\ (driver.fallback.r = "Success" /\ ~FallbackCovers) =>
              /\ last.kind = "Err"
              /\ last.error =
                    InvalidMipmapsCount(args.mipmaps.num, 1,
                                        max_mipmaps(args.dimensions) + 1)
        /\ driver.fallback.r # "Success" =>
              last.error.tag \in {"FormatNotSupported", "AllocError", "Panic"}

C4_Witness ==
    /\ AfterNew /\ MipmapsTooHigh /\ SamplesInMask /\ WithinLimits
    /\ driver.fallback.r = "Success" /\ driver.fallback.output.maxMipLevels = 1
    /\ last.error = InvalidMipmapsCount(3, 1, 3)

TransientWithOther ==
    /\ "transient_attachment" \in args.usage
    /\ args.usage \ {"transient_attachment", "color_attachment",
                     "depth_stencil_attachment", "input_attachment"} # {}

\* C5 as stated: transient_attachment with any usage bit other than the
\* three attachment usages always returns UnsupportedUsage.
C5_AlwaysUnsupportedUsage ==
    (AfterNew /\ TransientWithOther) => (last.kind = "Err" /\ last.error = UnsupportedUsage)

\* C5 (amended): transient_attachment with any usage bit other than the three
\* attachment usages returns UnsupportedUsage provided no sparse or
\* mutable-format flag is set and the format has a feature under the
\* requested tiling; transient_attachment with only those three bits, on a
\* format that has their features and is not YCbCr, is not rejected with
\* UnsupportedUsage.
C5_UnsupportedUsageAfterFormat ==
    /\ (AfterNew /\ TransientWithOther /\ ~UnimplementedFlags(args)
           /\ TilingFeatures(args) # {}) =>
          /\ last.kind = "Err"
          /\ last.error = UnsupportedUsage
          /\ last.calls = <<>>
    /\ (AfterNew /\ "transient_attachment" \in args.usage /\ ~TransientWithOther
           /\ ~UnimplementedFlags(args)
           /\ FormatFeaturesCheck(device, args) = NoError
           /\ FormatTable[args.format].ty # "Ycbcr") =>
          last.error # UnsupportedUsage

C5_Witness ==
    /\ AfterNew /\ args.usage = {"transient_attachment", "sampled"}
    /\ last.error = UnsupportedUsage

FlagsMismatch ==
    LET d == args.dimensions
    IN  \/ "cube_compatible" \in args.flags
            /\ ~(d.kind = "Dim2d" /\ d.width = d.height /\ d.array_layers >= 6)
        \/ "array_2d_compatible" \in args.flags /\ d.kind # "Dim3d"

\* C7 as stated: cube_compatible on anything but a square 2D image with at
\* least 6 layers, and array_2d_compatible on anything but a 3D image, always
\* yield CreationFlagRequirementsNotMet, without the fallback query.
C7_AlwaysFlagRequirements ==
    (AfterNew /\ FlagsMismatch) =>
        /\ last.kind = "Err"
        /\ last.error = CreationFlagRequirementsNotMet
        /\ last.calls = <<>>

\* C7 (amended): the same, provided the descriptor passes the checks made
\* before the flag check (creation flags implemented, format features, usage
\* rules, mipmap count, sample count, multisampled storage, no zero
\* dimension).
C7_FlagRequirementsAfterEarlierRules ==
    (AfterNew /\ FlagsMismatch /\ PassesDimensionsRule) =>
        /\ last.kind = "Err"
        /\ last.error = CreationFlagRequirementsNotMet
        /\ last.calls = <<>>

C7_Witness ==
    /\ AfterNew /\ "cube_compatible" \in args.flags
    /\ args.dimensions.width = 2 /\ args.dimensions.height = 3
    /\ MipmapsTooHigh
    /\ last.error = CreationFlagRequirementsNotMet

\* C8: an imported handle never owns its lifetime, importing it creates no
\* native image, and neither using nor dropping it calls vkDestroyImage.
C8_ImportedNeverDestroyed ==
    Imported =>
        /\ ~image[1].needs_destruction
        /\ vk_destroyed["swapchain"] = 0
        /\ "swapchain" \in vk_images
        /\ "created" \notin vk_images
        /\ "CreateImage" \notin {last.calls[i] : i \in DOMAIN last.calls}
        /\ "DestroyImage" \notin {last.calls[i] : i \in DOMAIN last.calls}

C8_Witness == Imported /\ pc = "dropped" /\ last.op = "drop"

\* C9: for an owned handle vkDestroyImage is called exactly once: not while
\* the handle is in use, once when it is dropped, and never again.
C9_OwnedDestroyedOnce ==
    Owned =>
        /\ image[1].needs_destruction
        /\ pc = "live" => vk_destroyed["created"] = 0 /\ "created" \in vk_images
        /\ pc = "dropped" => vk_destroyed["created"] = 1 /\ "created" \notin vk_images
        /\ vk_destroyed["swapchain"] = 0

C9_Witness == Owned /\ pc = "dropped" /\ vk_destroyed["created"] = 1

\* C10: when new does not hand a handle to the caller (a typed error or a
\* panic), no image it created is left in the driver.
C10_NoImageLeftBehind == (AfterNew /\ last.kind # "Ok") => "created" \notin vk_images

\* the driver calls the last operation made, as a set
LastCalls == {last.calls[i] : i \in DOMAIN last.calls}

\* how often the last operation made the driver call c
CallCount(c) == Cardinality({i \in DOMAIN last.calls : last.calls[i] = c})

\* none of the checks that return or panic before the fallback query fired
NoFatal == Validate(device, build.debug_assertions, args) = NoError

\* a deferred error was recorded (for a descriptor that passes the fatal checks)
DeferredRecorded == ~(MipmapsInRange /\ SamplesInMask /\ WithinLimits)

\* the deferred errors that were recorded, and the one recorded last
RecordedErrors ==
    {e \in {MipmapsDeferred(args), SamplesDeferred(args), LimitsDeferred(args)} : e # NoError}

LastDeferred ==
    IF ~WithinLimits THEN UnsupportedDimensions(args.dimensions)
    ELSE IF ~SamplesInMask THEN UnsupportedSamplesCount(args.num_samples)
    ELSE InvalidMipmapsCount(args.mipmaps.num, 1, max_mipmaps(args.dimensions) + 1)

DeferredTags == {"InvalidMipmapsCount", "UnsupportedSamplesCount", "UnsupportedDimensions"}

Taxonomy ==
    {"FeatureNotImplemented", "FormatNotSupported", "UnsupportedUsage",
     "InvalidMipmapsCount", "UnsupportedSamplesCount", "UnsupportedDimensions",
     "CreationFlagRequirementsNotMet", "ShaderStorageImageMultisampleFeatureNotEnabled",
     "AllocError"}

\* C11: every failing call of new returns to the caller a typed error of the
\* taxonomy; no failure is an abort, the rejection of the sparse and
\* mutable-format creation flags included.
C11_FailureIsTyped ==
    (AfterNew /\ last.kind # "Ok") => (last.kind = "Err" /\ last.error.tag \in Taxonomy)

\* C13 as stated: when a deferred error was recorded and no fatal rule fired,
\* validation passes if and only if the fallback query succeeds and covers
\* every requested value; otherwise new returns the deferred error without a
\* native create call.
C13_DeferredUnlessFallbackCovers ==
    (AfterNew /\ NoFatal /\ DeferredRecorded) =>
        IF FallbackCovers
        THEN "CreateImage" \in LastCalls
        ELSE /\ last.kind = "Err"
             /\ last.error \in RecordedErrors
             /\ "CreateImage" \notin LastCalls

\* C13 (amended): when a deferred error was recorded and no fatal rule fired,
\* validation passes if and only if the fallback query succeeds and covers
\* every requested value; when the query succeeds and a requested value is
\* above its answer, new returns the deferred error recorded last (dimensions
\* over sample count over mipmap count); when the query fails, new returns the
\* query's error instead; in neither case is the native create call made.
C13_DeferredUnlessQueryFailsOrCovers ==
    (AfterNew /\ NoFatal /\ DeferredRecorded) =>
        /\ FallbackCovers <=> "CreateImage" \in LastCalls
        /\ FallbackCovers => last.error.tag \notin DeferredTags
        /\ (driver.fallback.r = "Success" /\ ~FallbackCovers) =>
              /\ last.kind = "Err"
              /\ last.error = LastDeferred
              /\ last.calls = <<"GetPhysicalDeviceImageFormatProperties">>
        /\ driver.fallback.r # "Success" =>
              /\ last.error.tag \in {"FormatNotSupported", "AllocError", "Panic"}
              /\ last.calls = <<"GetPhysicalDeviceImageFormatProperties">>

C13_Witness ==
    /\ AfterNew /\ NoFatal /\ ~WithinLimits /\ ~SamplesInMask
    /\ driver.fallback.r = "Success" /\ ~FallbackCovers
    /\ last.error = UnsupportedDimensions(args.dimensions)

\* C14: when the fallback query itself fails, its failure supersedes the
\* recorded deferred error: new returns FormatNotSupported when the driver
\* reports the combination as unsupported, AllocError when it reports out of
\* memory, and never the deferred InvalidMipmapsCount, UnsupportedSamplesCount
\* or UnsupportedDimensions; no image is created.
C14_QueryFailureSupersedes ==
    (AfterNew /\ NoFatal /\ DeferredRecorded /\ driver.fallback.r # "Success") =>
        /\ last.kind # "Ok"
        /\ last.error.tag \notin DeferredTags
        /\ driver.fallback.r = "FormatNotSupported" =>
              (last.kind = "Err" /\ last.error = FormatNotSupported)
        /\ driver.fallback.r \in {"OutOfHostMemory", "OutOfDeviceMemory"} =>
              (last.kind = "Err" /\ last.error = AllocError(driver.fallback.r))
        /\ "CreateImage" \notin LastCalls

C14_Witness ==
    /\ AfterNew /\ NoFatal /\ ~SamplesInMask
    /\ driver.fallback.r = "FormatNotSupported"
    /\ last.error = FormatNotSupported
    /\ last.calls = <<"GetPhysicalDeviceImageFormatProperties">>

\* C15: within one call of new the fallback query is issued exactly once when
\* a deferred error was recorded and no fatal rule fired, and not at all
\* otherwise; vkCreateImage is called at most once, after the fallback query
\* and only when validation passed; the memory requirements are queried only
\* after vkCreateImage; a call that ends in a fatal validation error makes no
\* driver call.
C15_DriverCallOrder ==
    AfterNew =>
        /\ CallCount("GetPhysicalDeviceImageFormatProperties") =
              (IF NoFatal /\ DeferredRecorded THEN 1 ELSE 0)
        /\ CallCount("CreateImage") <= 1
        /\ "CreateImage" \in LastCalls =>
              /\ NoFatal
              /\ DeferredRecorded => FallbackCovers
        /\ \A i, j \in DOMAIN last.calls :
              (last.calls[i] = "GetPhysicalDeviceImageFormatProperties"
                 /\ last.calls[j] = "CreateImage") => i < j
        /\ \A j \in DOMAIN last.calls :
              last.calls[j] \in {"GetImageMemoryRequirements",
                                 "GetImageMemoryRequirements2KHR"} =>
                 \E i \in 1..(j - 1) : last.calls[i] = "CreateImage"
        /\ ~NoFatal => last.calls = <<>>

C15_Witness ==
    /\ AfterNew
    /\ last.calls = <<"GetPhysicalDeviceImageFormatProperties", "CreateImage",
                      "GetImageMemoryRequirements">>

\* the features the device reports for the format under the requested tiling
RequestedTilingFeatures ==
    IF args.linear_tiling
    THEN FormatTable[args.format].linear
    ELSE FormatTable[args.format].optimal

UsageLacksFeature ==
    \E u \in args.usage \cap {"sampled", "storage", "color_attachment",
                              "depth_stencil_attachment", "input_attachment"} :
        ~FeaturePresent(u, RequestedTilingFeatures)

TransferLacksFeature ==
    \E u \in args.usage \cap {"transfer_source", "transfer_destination"} :
        ~FeaturePresent(u, RequestedTilingFeatures)

\* C18 as stated: with khr_maintenance1 loaded a transfer usage whose format
\* feature is missing yields UnsupportedUsage; without the extension the
\* descriptor is not rejected for that reason.
C18_TransferCheckedWithExtension ==
    /\ (AfterNew /\ "khr_maintenance1" \in device.loaded_extensions
           /\ TransferLacksFeature) =>
          (last.kind = "Err" /\ last.error = UnsupportedUsage)
    /\ (AfterNew /\ "khr_maintenance1" \notin device.loaded_extensions
           /\ TransferLacksFeature /\ ~UsageLacksFeature /\ ~TransientWithOther
           /\ ~(FormatTable[args.format].ty = "Ycbcr" /\ AttachmentUsage(args.usage))) =>
          last.error # UnsupportedUsage

\* C18 (amended): provided no sparse or mutable-format creation flag is set and
\* the format has a feature under the requested tiling, a transfer usage whose
\* format feature is missing yields UnsupportedUsage when khr_maintenance1 is
\* loaded; without the extension the descriptor is not rejected for that
\* reason: UnsupportedUsage is then returned only for another usage rule.
C18_TransferCheckedAfterFormat ==
    /\ (AfterNew /\ "khr_maintenance1" \in device.loaded_extensions
           /\ TransferLacksFeature /\ ~UnimplementedFlags(args)
           /\ RequestedTilingFeatures # {}) =>
          /\ last.kind = "Err"
          /\ last.error = UnsupportedUsage
          /\ last.calls = <<>>
    /\ (AfterNew /\ "khr_maintenance1" \notin device.loaded_extensions
           /\ TransferLacksFeature /\ ~UsageLacksFeature /\ ~TransientWithOther
           /\ ~(FormatTable[args.format].ty = "Ycbcr" /\ AttachmentUsage(args.usage))) =>
          last.error # UnsupportedUsage

C18_Witness ==
    /\ AfterNew /\ "khr_maintenance1" \in device.loaded_extensions
    /\ "transfer_source" \in args.usage /\ TransferLacksFeature /\ ~UsageLacksFeature
    /\ last.error = UnsupportedUsage

\* the limits the sample-count rule names for a format class
SampledLimit(ty) ==
    CASE ty \in {"Float", "Compressed"} -> Limits.sampled_image_color_sample_counts
      [] ty \in {"Uint", "Sint"} -> Limits.sampled_image_integer_sample_counts
      [] ty = "Depth" -> Limits.sampled_image_depth_sample_counts
      [] ty = "Stencil" -> Limits.sampled_image_stencil_sample_counts
      [] ty = "DepthStencil" ->
            BitAnd(Limits.sampled_image_depth_sample_counts,
                   Limits.sampled_image_stencil_sample_counts)
      [] ty = "Ycbcr" -> 1

FramebufferLimit(ty) ==
    CASE ty \in {"Float", "Compressed", "Uint", "Sint"} ->
            Limits.framebuffer_color_sample_counts
      [] ty = "Depth" -> Limits.framebuffer_depth_sample_counts
      [] ty = "Stencil" -> Limits.framebuffer_stencil_sample_counts
      [] ty = "DepthStencil" ->
            BitAnd(Limits.framebuffer_depth_sample_counts,
                   Limits.framebuffer_stencil_sample_counts)
      [] OTHER -> 0

\* all counts up to 64, intersected with the limit of every requested usage
ExpectedSamplesMask ==
    LET ty == FormatTable[args.format].ty
        sampled == IF "sampled" \in args.usage THEN SampledLimit(ty) ELSE 127
        storage == IF "storage" \in args.usage
                   THEN Limits.storage_image_sample_counts ELSE 127
        attachment == IF AttachmentUsage(args.usage) THEN FramebufferLimit(ty) ELSE 127
    IN  BitAnd(BitAnd(BitAnd(127, sampled), storage), attachment)

SamplesAbsent == BitAnd(args.num_samples, ExpectedSamplesMask) = 0

\* C19: for a power-of-two sample count on a descriptor that passes the fatal
\* rules, UnsupportedSamplesCount is recorded as a deferred error exactly when
\* the count's bit is absent from 0x7f intersected with the sampled, storage
\* and framebuffer limits of the requested usages: then the fallback query is
\* issued and, unless a dimension error replaced it, its refusal returns
\* UnsupportedSamplesCount; otherwise no query is issued for the sample count.
\* A power-of-two count above 64 is absent from every mask, and
\* UnsupportedSamplesCount for a power-of-two count is returned only after
\* the fallback query.
C19_SamplesDeferredIffAbsent ==
    /\ (AfterNew /\ NoFatal /\ is_power_of_two(args.num_samples)) =>
          /\ SamplesAbsent =>
                /\ last.calls[1] = "GetPhysicalDeviceImageFormatProperties"
                /\ (driver.fallback.r = "Success" /\ ~FallbackCovers /\ WithinLimits) =>
                      last.error = UnsupportedSamplesCount(args.num_samples)
          /\ (~SamplesAbsent /\ MipmapsInRange /\ WithinLimits) =>
                /\ "GetPhysicalDeviceImageFormatProperties" \notin LastCalls
                /\ last.error.tag # "UnsupportedSamplesCount"
          /\ ~SamplesAbsent => last.error.tag # "UnsupportedSamplesCount"
          /\ args.num_samples > 64 => SamplesAbsent
    /\ (AfterNew /\ is_power_of_two(args.num_samples)
           /\ last.error.tag = "UnsupportedSamplesCount") =>
          last.calls = <<"GetPhysicalDeviceImageFormatProperties">>

C19_Witness ==
    /\ AfterNew /\ NoFatal /\ args.num_samples = 128 /\ SamplesAbsent /\ WithinLimits
    /\ last.error = UnsupportedSamplesCount(128)
    /\ last.calls = <<"GetPhysicalDeviceImageFormatProperties">>

YcbcrAttachment ==
    FormatTable[args.format].ty = "Ycbcr" /\ AttachmentUsage(args.usage)

\* C20 as stated: a YCbCr format with any attachment usage is rejected with
\* UnsupportedUsage, without the fallback query.
C20_YcbcrAttachmentAlwaysUnsupportedUsage ==
    (AfterNew /\ YcbcrAttachment) =>
        /\ last.kind = "Err"
        /\ last.error = UnsupportedUsage
        /\ last.calls = <<>>

\* C20 (amended): a YCbCr format with any attachment usage is rejected with
\* UnsupportedUsage, without the fallback query and whatever deferred error
\* the descriptor would record, provided it passes the checks made before the
\* sample-count step that return another error (creation flags implemented,
\* a feature under the requested tiling, mipmap count of at least 1, sample
\* count a power of two).
C20_YcbcrAttachmentUnsupportedUsage ==
    (AfterNew /\ YcbcrAttachment /\ ~UnimplementedFlags(args)
        /\ RequestedTilingFeatures # {}
        /\ ~MipmapsAssertFails(build.debug_assertions, args)
        /\ (args.mipmaps.kind = "Specific" => args.mipmaps.num >= 1)
        /\ is_power_of_two(args.num_samples)) =>
        /\ last.kind = "Err"
        /\ last.error = UnsupportedUsage
        /\ last.calls = <<>>

C20_Witness ==
    /\ AfterNew /\ YcbcrAttachment /\ ~UsageLacksFeature /\ ~TransientWithOther
    /\ args.num_samples = 128
    /\ last.error = UnsupportedUsage /\ last.calls = <<>>

\* a width, height, depth or array-layer count of the descriptor is zero
ZeroDimension ==
    LET d == args.dimensions
    IN  d.width = 0 \/ d.height = 0 \/ d.depth = 0 \/ d.array_layers = 0

ExpectedMipmaps ==
    CASE args.mipmaps.kind = "Log2" -> max_mipmaps(args.dimensions)
      [] args.mipmaps.kind = "One" -> 1
      [] args.mipmaps.kind = "Specific" -> args.mipmaps.num

\* C22: the full-chain policy resolves to the maximum mipmap count of the
\* dimensions, the none policy to 1, an explicit count of at least 1 to
\* itself, unclamped; that value is compared with the answer of the fallback
\* query, passed to vkCreateImage and reported by mipmap_levels() for as long
\* as the handle exists.
C22_MipmapsResolved ==
    /\ (AfterNew /\ "CreateImage" \in LastCalls) =>
          CreateInfo(args).mipLevels = ExpectedMipmaps
    /\ Owned => image[1].mipmaps = ExpectedMipmaps
    /\ (AfterNew /\ NoFatal /\ DeferredRecorded /\ driver.fallback.r = "Success"
           /\ ExpectedMipmaps > driver.fallback.output.maxMipLevels) =>
          (last.kind = "Err" /\ "CreateImage" \notin LastCalls)

C22_Witness ==
    /\ Owned /\ last.op = "bind_memory" /\ args.mipmaps = Specific(3) /\ MipmapsTooHigh
    /\ image[1].mipmaps = 3

\* C23: a successful new queries the memory requirements exactly once, as its
\* last driver call and right after vkCreateImage: with
\* GetImageMemoryRequirements2KHR when khr_get_memory_requirements2 is loaded,
\* with GetImageMemoryRequirements otherwise, never with both.  The returned
\* prefer_dedicated is false on the basic path; on the extended path it is
\* true exactly when khr_dedicated_allocation is loaded as well and the
\* driver reports prefersDedicatedAllocation.
C23_OneRequirementsQuery ==
    (AfterNew /\ last.kind = "Ok") =>
        LET ext2 == "khr_get_memory_requirements2" \in device.loaded_extensions
            dedicated == "khr_dedicated_allocation" \in device.loaded_extensions
            n == Len(last.calls)
        IN  /\ CallCount("GetImageMemoryRequirements2KHR") = (IF ext2 THEN 1 ELSE 0)
            /\ CallCount("GetImageMemoryRequirements") = (IF ext2 THEN 0 ELSE 1)
            /\ n >= 2
            /\ last.calls[n - 1] = "CreateImage"
            /\ last.calls[n] = (IF ext2 THEN "GetImageMemoryRequirements2KHR"
                                ELSE "GetImageMemoryRequirements")
            /\ ~ext2 => ~last.mem_reqs.prefer_dedicated
            /\ last.mem_reqs.prefer_dedicated <=>
                  (ext2 /\ dedicated /\ driver.requirements.prefersDedicatedAllocation)

C23_Witness ==
    /\ AfterNew /\ last.kind = "Ok"
    /\ {"khr_get_memory_requirements2", "khr_dedicated_allocation"}
          \subseteq device.loaded_extensions
    /\ last.mem_reqs.prefer_dedicated
    /\ last.calls = <<"CreateImage", "GetImageMemoryRequirements2KHR">>

\* the state right after bind_memory returned or panicked
AfterBind == last.op = "bind_memory"

\* a build with debug assertions and overflow checks
CheckedBuild == build.debug_assertions /\ build.overflow_checks

\* the handle as it was built by new or from_raw
AsBuilt ==
    IF image[1].image = "created"
    THEN NewImage(args)
    ELSE from_raw("swapchain", args.usage, args.format, args.flags, args.dimensions,
                  args.num_samples, ExpectedMipmaps)

AfterLayout ==
    last.op \in {"color_linear_layout", "depth_linear_layout", "stencil_linear_layout",
                 "multiplane_color_layout"}

Multiplane == request.layout.fn = "multiplane_color_layout"

\* the mip level asked for is below the handle's mipmap count
MipLevelInRange ==
    (IF Multiplane THEN 0 ELSE request.layout.mip_level) < image[1].mipmaps

\* what the multiplane query asks of the handle and of the aspect
MultiplaneRequirements ==
    LET aspect == request.layout.aspect
    IN  /\ image[1].mipmaps = 1
        /\ aspect \in {"Color", "Plane0", "Plane1", "Plane2"}
        /\ aspect \in {"Plane0", "Plane1", "Plane2"} =>
              FormatTable[image[1].format].ty = "Ycbcr"
        /\ aspect = "Plane2" => image[1].format = "G8B8R8_3PLANE420Unorm"

LayoutPreconditions == MipLevelInRange /\ (Multiplane => MultiplaneRequirements)

\* C25: a layout query calls vkGetImageSubresourceLayout only when the mip
\* level is below the handle's mipmap count and, for the multiplane query,
\* the handle has exactly one mip level, the aspect is Color or a plane, a
\* plane is asked of a YCbCr format only and Plane2 of G8B8R8_3PLANE420Unorm
\* only; a query that violates one of these panics without a driver call; the
\* handle is as it was built either way.
C25_LayoutOnlyIfAsserted ==
    AfterLayout =>
        /\ "GetImageSubresourceLayout" \in LastCalls => LayoutPreconditions
        /\ ~LayoutPreconditions => (last.kind = "Panic" /\ last.calls = <<>>)
        /\ LayoutPreconditions =>
              (last.kind = "Ok" /\ last.calls = <<"GetImageSubresourceLayout">>)
        /\ image[1] = AsBuilt

C25_Witness ==
    /\ AfterLayout /\ Multiplane /\ request.layout.aspect = "Plane2"
    /\ FormatTable[image[1].format].ty = "Ycbcr" /\ image[1].mipmaps = 1
    /\ last.kind = "Panic" /\ last.calls = <<>>

\* how many of the three deferred conditions hold
DeferredConditions ==
    (IF MipmapsTooHigh THEN 1 ELSE 0) + (IF SamplesAbsent THEN 1 ELSE 0)
        + (IF WithinLimits THEN 0 ELSE 1)

C27_HandleInvariant ==
    Owned =>
        LET img == image[1]
            d == img.dimensions
        IN  /\ img.usage # {}
            /\ is_power_of_two(img.samples)
            /\ img.mipmaps >= 1
            /\ d.width > 0 /\ d.height > 0 /\ d.depth > 0 /\ d.array_layers > 0
            /\ img.flags \cap {"sparse_binding", "sparse_residency", "sparse_aliased",
                               "mutable_format"} = {}
            /\ img.format_features = RequestedTilingFeatures
            /\ img.format_features # {}
            /\ img.needs_destruction

C27_Witness ==
    /\ Owned /\ pc = "live" /\ AfterLayout
    /\ args.mipmaps = Log2 /\ image[1].mipmaps = 2 /\ image[1].samples = 2

====
